---- MODULE Spec2Model ----
(***************************************************************************)
(* Model of the QuickBooks invoice service: the OAuth endpoints and the    *)
(* invoice listing of src/index.js (and of its near-duplicate entry point  *)
(* src/unnamed/part_000), and the invoice creation route of                *)
(* src/routes/invoiceRoutes.js.                                            *)
(*                                                                         *)
(* A JavaScript string is a sequence of one-character strings; an optional *)
(* value (null / undefined / absent key) is a sequence of length 0 or 1.   *)
(* The vendor SDKs (intuit-oauth, node-quickbooks) and the accounting      *)
(* platform behind them are the environment: every upstream call is        *)
(* answered, later, by a callback carrying either an error or a result;    *)
(* the platform evaluates a query, or stores an entity, at the moment it   *)
(* answers.  A handler runs without interruption from one wait to the next *)
(* (Node's event loop), and handlers of different requests interleave at   *)
(* those waits.                                                            *)
(***************************************************************************)
EXTENDS Integers, Sequences, FiniteSets, Bags, TLC

VARIABLES variant, order, token, expired, customers, invoices, reqs

vars == <<variant, order, token, expired, customers, invoices, reqs>>

(***************************************************************************)
(* Bounds of the model: the number of requests the service receives.       *)
(***************************************************************************)
MaxReqs == 3

(***************************************************************************)
(* JavaScript parseInt(string) and parseFloat(string), on strings over the *)
(* alphabet 0-9 . + - space and the letter a (no radix prefix, no          *)
(* exponent, no "Infinity").                                               *)
(***************************************************************************)
Digits == <<"0", "1", "2", "3", "4", "5", "6", "7", "8", "9">>

IsDigit(c) == \E i \in 1..10 : Digits[i] = c

DigitVal(c) == (CHOOSE i \in 1..10 : Digits[i] = c) - 1

RECURSIVE TrimStart(_)
TrimStart(s) ==
  IF s # <<>> /\ Head(s) = " " THEN TrimStart(Tail(s)) ELSE s

\* the sign of a numeric prefix, and the text after it
SignOf(s) == IF s # <<>> /\ Head(s) = "-" THEN -1 ELSE 1

AfterSign(s) == IF s # <<>> /\ Head(s) \in {"-", "+"} THEN Tail(s) ELSE s

\* the longest prefix of s made of decimal digits
RECURSIVE DigitPrefix(_)
DigitPrefix(s) ==
  IF s # <<>> /\ IsDigit(Head(s)) THEN <<Head(s)>> \o DigitPrefix(Tail(s)) ELSE <<>>

RECURSIVE DigitsValue(_, _)
DigitsValue(ds, acc) ==
  IF ds = <<>> THEN acc ELSE DigitsValue(Tail(ds), acc * 10 + DigitVal(Head(ds)))

RECURSIVE Pow10(_)
Pow10(k) == IF k = 0 THEN 1 ELSE 10 * Pow10(k - 1)

RECURSIVE Gcd(_, _)
Gcd(a, b) == IF b = 0 THEN a ELSE Gcd(b, a % b)

\* a JavaScript number: NaN, or the rational num/den in lowest terms
NaN == [nan |-> TRUE, num |-> 0, den |-> 1]

Num(n, d) ==
  LET a == IF n < 0 THEN -n ELSE n
      g == Gcd(a, d)
  IN [nan |-> FALSE, num |-> n \div g, den |-> d \div g]

parseInt(str) ==
  LET t  == AfterSign(TrimStart(str))
      ds == DigitPrefix(t)
  IN IF ds = <<>> THEN NaN
     ELSE Num(SignOf(TrimStart(str)) * DigitsValue(ds, 0), 1)

parseFloat(str) ==
  LET t    == AfterSign(TrimStart(str))
      ip   == DigitPrefix(t)
      rest == SubSeq(t, Len(ip) + 1, Len(t))
      fp   == IF rest # <<>> /\ Head(rest) = "." THEN DigitPrefix(Tail(rest)) ELSE <<>>
  IN IF ip = <<>> /\ fp = <<>> THEN NaN
     ELSE Num(SignOf(TrimStart(str))
                * (DigitsValue(ip, 0) * Pow10(Len(fp)) + DigitsValue(fp, 0)),
              Pow10(Len(fp)))

(***************************************************************************)
(* Optional values.                                                        *)
(***************************************************************************)
None == <<>>

Some(x) == <<x>>

IsSome(o) == o # <<>>

Val(o) == o[1]

(***************************************************************************)
(* The accounting platform: the item catalog (read-only for this service)  *)
(* and the queries the SDK sends to it.                                    *)
(***************************************************************************)
CatalogItems ==
  << [Id |-> "99", Name |-> "Widget", Sku |-> "A1"],
     [Id |-> "7", Name |-> "Bolt M4", Sku |-> "B2"],
     [Id |-> "8", Name |-> "Bolt M4 (old)", Sku |-> "B2"] >>

\* the QueryResponse.Item key of an exact-match item query: absent when
\* nothing matches, else the matching items
QueryItems(sku) ==
  LET hit(it) == it.Sku = sku
      found == SelectSeq(CatalogItems, hit)
  IN IF found = <<>> THEN None ELSE Some(found)

\* the QueryResponse.Customer key of an exact-match customer query
QueryCustomers(all, company) ==
  LET hit(c) == c.CompanyName = company
      found == SelectSeq(all, hit)
  IN IF found = <<>> THEN None ELSE Some(found)

\* an upstream error object, as the SDKs hand it to a callback or throw it
Fault(status, message) == [message |-> message, authResponse |-> [status |-> status]]

E401 == Fault(401, "AuthenticationFailed")

E400 == Fault(400, "ValidationFault")

\* the token records an authorization-code exchange may return
TokenPool ==
  { [access_token |-> "at-1", refresh_token |-> "rt-1", token_type |-> "bearer",
     expires_in |-> 3600, realmId |-> "realm-1"] }

(***************************************************************************)
(* Request bodies of POST /api/invoices/create.  A behaviour follows one   *)
(* order: the body a client submits, and submits again.                    *)
(***************************************************************************)
LineA1 ==
  [sku |-> "A1", description |-> "Widget",
   quantity |-> <<"2">>, unitPrice |-> <<"1", "0", ".", "0", "0">>,
   totalAmount |-> <<"2", "0", ".", "0", "0">>]

LineB2 ==
  [sku |-> "B2", description |-> "Bolts",
   quantity |-> <<" ", "1", "2", ".", "7", "a">>, unitPrice |-> <<"-", ".", "5", "0", "a">>,
   totalAmount |-> <<"a", "6">>]

LineZ9 ==
  [sku |-> "Z9", description |-> "Unknown part",
   quantity |-> <<"1">>, unitPrice |-> <<"3", ".", "2", "5">>,
   totalAmount |-> <<"3", ".", "2", "5">>]

BodyOf(company, tag, lineItems) ==
  [company |-> company, email |-> "ap@" \o tag,
   billingAddress |-> "1 Bill St " \o tag, billingTown |-> "Billtown " \o tag,
   billingState |-> "CA", billingZipCode |-> "90001",
   shippingAddress |-> "2 Ship Rd " \o tag, shippingTown |-> "Shipville " \o tag,
   shippingState |-> "NV", shippingZipCode |-> "89001",
   shippingDate |-> "2025-01-31", lineItems |-> lineItems]

Bodies ==
  { BodyOf("Acme", "acme", Some(<<LineA1>>)),
    BodyOf("Acme", "acme2", Some(<<LineA1, LineZ9>>)),
    BodyOf("Bolt", "bolt", Some(<<LineZ9, LineB2>>)),
    BodyOf("Bolt", "bolt2", Some(<<LineB2, LineA1>>)),
    BodyOf("Acme", "acme3", Some(<<>>)),
    BodyOf("Bolt", "bolt3", None) }

\* customers the platform may hold before the service starts
ExistingAcme ==
  [Id |-> 1, CompanyName |-> "Acme", DisplayName |-> "Acme",
   PrimaryEmailAddr |-> [Address |-> "old@acme"],
   BillAddr |-> [Line1 |-> "9 Old St", City |-> "Oldtown",
                 CountrySubDivisionCode |-> "TX", PostalCode |-> "73301"],
   ShipAddr |-> [Line1 |-> "9 Old St", City |-> "Oldtown",
                 CountrySubDivisionCode |-> "TX", PostalCode |-> "73301"]]

(***************************************************************************)
(* HTTP responses.                                                         *)
(***************************************************************************)
Json(status, body) == [status |-> status, type |-> "json", location |-> "", body |-> body]

Redirect(url) == [status |-> 302, type |-> "redirect", location |-> url, body |-> [none |-> TRUE]]

(***************************************************************************)
(* One inbound HTTP request and the handler serving it.                    *)
(***************************************************************************)
Idle ==
  [kind |-> "idle", pc |-> "idle", isTokenValid |-> FALSE, body |-> None,
   nFindInvoices |-> 0, nFindCustomers |-> 0, nCreateCustomer |-> 0,
   nFindItems |-> 0, nCreateInvoice |-> 0,
   searchKey |-> None, found |-> None, searched |-> FALSE,
   newCustomer |-> None, customer |-> None,
   items |-> <<>>, doneOrder |-> <<>>, settled |-> FALSE,
   invoiceData |-> None, upstreamErr |-> None, upstreamOk |-> None,
   thrown |-> None, qboToken |-> None, responses |-> <<>>]

Send(req, response) == [req EXCEPT !.pc = "done", !.responses = Append(@, response)]

\* The requests served so far form a bag: the service gives a request no
\* identity, and two requests may be in exactly the same state.
Requests == BagToSet(reqs)

\* a new request arrives and its handler runs up to its first wait
Arrive(req) == reqs' = reqs (+) SetToBag({req})

\* a callback of one request runs
Step(old, new) == reqs' = (reqs (-) SetToBag({old})) (+) SetToBag({new})

CanArrive == BagCardinality(reqs) < MaxReqs

Init ==
  /\ variant \in {"index", "part_000"}
  /\ order \in Bodies
  /\ token = None
  /\ expired = FALSE
  /\ customers \in {<<>>, <<ExistingAcme>>}
  /\ invoices = 0
  /\ reqs = EmptyBag

(***************************************************************************)
(* The OAuth helper's token store.                                         *)
(***************************************************************************)
isAccessTokenValid == IsSome(token) /\ ~expired

\* time passes and the access token outlives expires_in
TokenExpires ==
  /\ IsSome(token) /\ ~expired
  /\ expired' = TRUE
  /\ UNCHANGED <<variant, order, token, customers, invoices, reqs>>

(***************************************************************************)
(* GET /auth                                                               *)
(***************************************************************************)
authorizeUri ==
  [scope |-> IF variant = "index" THEN <<"Accounting", "OpenId">> ELSE <<"Accounting">>,
   state |-> "randomState"]

Auth ==
  /\ CanArrive
  /\ Arrive(Send([Idle EXCEPT !.kind = "auth"],
                 [Redirect("provider") EXCEPT !.body = authorizeUri]))
  /\ UNCHANGED <<variant, order, token, expired, customers, invoices>>

(***************************************************************************)
(* GET /callback                                                           *)
(***************************************************************************)
CallbackStart ==
  /\ CanArrive
  /\ Arrive([Idle EXCEPT !.kind = "callback", !.pc = "exchange"])
  /\ UNCHANGED <<variant, order, token, expired, customers, invoices>>

\* the token record after createToken settled: stored on success only
StoreExchange_always(old, ok, tok) == Some(tok)

StoreExchange(old, ok, tok) == IF ok THEN Some(tok) ELSE old

CallbackSuccessResponse(tok) ==
  IF variant = "index"
  THEN Json(200, [success |-> TRUE, message |-> "Authentication successful",
                  realmId |-> tok.realmId])
  ELSE Redirect("/api/invoices")

CallbackFailureResponse(err) ==
  IF variant = "index"
  THEN Json(500, [error |-> "Authentication failed", details |-> err.message])
  ELSE Json(500, [error |-> "Authentication failed"])

CallbackExchanged(req) ==
  /\ req.kind = "callback" /\ req.pc = "exchange"
  /\ \E ok \in BOOLEAN, tok \in TokenPool :
       /\ token' = StoreExchange(token, ok, tok)
       /\ expired' = IF ok THEN FALSE ELSE expired
       /\ Step(req,
               Send([req EXCEPT !.upstreamOk = IF ok THEN Some(tok) ELSE None,
                                !.upstreamErr = IF ok THEN None ELSE Some(E400)],
                    IF ok THEN CallbackSuccessResponse(tok)
                          ELSE CallbackFailureResponse(E400)))
  /\ UNCHANGED <<variant, order, customers, invoices>>

(***************************************************************************)
(* GET /api/invoices                                                       *)
(***************************************************************************)
ListInvalidTokenResponse_401 == Json(401, [error |-> "Authentication required"])

ListInvalidTokenResponse == Redirect("/auth")

\* the catch block of the handler
ListCatch(error) ==
  IF error.authResponse.status = 401
  THEN Redirect("/auth")
  ELSE Json(500, [error |-> "Failed to fetch invoices"])

\* the findInvoices callback
ListCallback(err, result) ==
  IF IsSome(err)
  THEN Json(500, [error |-> "Failed to fetch invoices"])
  ELSE Json(200, Val(result))

ListStart ==
  /\ CanArrive
  /\ LET req == [Idle EXCEPT !.kind = "list", !.isTokenValid = isAccessTokenValid]
     IN Arrive(IF ~req.isTokenValid
               THEN Send(req, ListInvalidTokenResponse)
               ELSE [req EXCEPT !.pc = "findInvoices", !.nFindInvoices = 1,
                                !.qboToken = token])
  /\ UNCHANGED <<variant, order, token, expired, customers, invoices>>

\* an exception thrown synchronously inside the try block, after the token
\* check and before the query is sent
ListThrows ==
  /\ CanArrive
  /\ isAccessTokenValid
  /\ \E error \in {E401, E400} :
       Arrive(Send([Idle EXCEPT !.kind = "list", !.isTokenValid = TRUE,
                                !.thrown = Some(error)],
                   ListCatch(error)))
  /\ UNCHANGED <<variant, order, token, expired, customers, invoices>>

ListAnswered(req) ==
  /\ req.kind = "list" /\ req.pc = "findInvoices"
  /\ \E err \in {None, Some(E401), Some(E400)} :
       LET result == Some([QueryResponse |-> [totalCount |-> invoices]])
       IN Step(req,
               Send([req EXCEPT !.upstreamErr = err,
                                !.upstreamOk = IF IsSome(err) THEN None ELSE result],
                    ListCallback(err, result)))
  /\ UNCHANGED <<variant, order, token, expired, customers, invoices>>

(***************************************************************************)
(* POST /api/invoices/create (registered by src/index.js only)             *)
(***************************************************************************)
\* the token check of the route: respond 401 and stop
RejectsUnauthenticated_never(isTokenValid) == FALSE

RejectsUnauthenticated(isTokenValid) == ~isTokenValid

Unauthenticated ==
  Json(401, [error |-> "Authentication required",
             message |-> "Please visit /auth endpoint to authenticate with QuickBooks"])

\* the catch block of the route
CreateCatch(message) ==
  Json(500, [error |-> "Failed to create invoice", details |-> message])

\* findOrCreateCustomer: does the query response hold a customer?
HasCustomer(found) == IsSome(found) /\ Len(Val(found)) > 0

NewCustomer_swapped(customerData) ==
  [CompanyName |-> customerData.company,
   DisplayName |-> customerData.company,
   PrimaryEmailAddr |-> [Address |-> customerData.email],
   BillAddr |-> [Line1 |-> customerData.shippingAddress,
                 City |-> customerData.shippingTown,
                 CountrySubDivisionCode |-> customerData.shippingState,
                 PostalCode |-> customerData.shippingZipCode],
   ShipAddr |-> [Line1 |-> customerData.shippingAddress,
                 City |-> customerData.shippingTown,
                 CountrySubDivisionCode |-> customerData.shippingState,
                 PostalCode |-> customerData.shippingZipCode]]

NewCustomer(customerData) ==
  [CompanyName |-> customerData.company,
   DisplayName |-> customerData.company,
   PrimaryEmailAddr |-> [Address |-> customerData.email],
   BillAddr |-> [Line1 |-> customerData.billingAddress,
                 City |-> customerData.billingTown,
                 CountrySubDivisionCode |-> customerData.billingState,
                 PostalCode |-> customerData.billingZipCode],
   ShipAddr |-> [Line1 |-> customerData.shippingAddress,
                 City |-> customerData.shippingTown,
                 CountrySubDivisionCode |-> customerData.shippingState,
                 PostalCode |-> customerData.shippingZipCode]]

\* findItem: the value the promise resolves with (null is None)
FindItemResult_fallback(item) ==
  IF IsSome(item) THEN Some(Val(item)[1]) ELSE Some(CatalogItems[1])

FindItemResult(item) == IF IsSome(item) THEN Some(Val(item)[1]) ELSE None

\* the line-item callback's check of the resolved item
ItemMissing(qboItem) == ~IsSome(qboItem)

LineEntry(item, qboItem) ==
  [Amount |-> parseFloat(item.totalAmount),
   DetailType |-> "SalesItemLineDetail",
   Description |-> item.description,
   SalesItemLineDetail |->
     [ItemRef |-> [value |-> qboItem.Id, name |-> qboItem.Name],
      Qty |-> parseInt(item.quantity),
      UnitPrice |-> parseFloat(item.unitPrice)]]

InFlight == [state |-> "inflight", line |-> None, qboItem |-> None, message |-> ""]

\* Promise.all: the fulfilment values, in the order of the promises
PromiseAllValues_completion(items, doneOrder) ==
  [k \in DOMAIN doneOrder |-> Val(items[doneOrder[k]].line)]

PromiseAllValues(items, doneOrder) ==
  [i \in DOMAIN items |-> Val(items[i].line)]

\* Promise.all: a rejection reaches the awaiting handler only if the
\* combined promise has not settled yet
RejectionReachesHandler_always(settled) == TRUE

RejectionReachesHandler(settled) == ~settled

InvoiceData(customer, body, lineItems) ==
  [CustomerRef |-> [value |-> customer.Id],
   BillEmail |-> [Address |-> body.email],
   ShipDate |-> body.shippingDate,
   Line |-> lineItems,
   BillAddr |-> [Line1 |-> body.billingAddress,
                 City |-> body.billingTown,
                 CountrySubDivisionCode |-> body.billingState,
                 PostalCode |-> body.billingZipCode],
   ShipAddr |-> [Line1 |-> body.shippingAddress,
                 City |-> body.shippingTown,
                 CountrySubDivisionCode |-> body.shippingState,
                 PostalCode |-> body.shippingZipCode]]

\* the createInvoice callback
InvoiceCallback_idOnly(err, invoice) ==
  IF IsSome(err)
  THEN Json(500, [error |-> "Failed to create invoice", details |-> Val(err).message])
  ELSE Json(201, [success |-> TRUE, message |-> "Invoice created successfully",
                  invoice |-> [Id |-> Val(invoice).Id]])

InvoiceCallback(err, invoice) ==
  IF IsSome(err)
  THEN Json(500, [error |-> "Failed to create invoice", details |-> Val(err).message])
  ELSE Json(201, [success |-> TRUE, message |-> "Invoice created successfully",
                  invoice |-> Val(invoice)])

\* the route from the assembly of the invoice to the createInvoice call
IssueInvoice(req) ==
  [req EXCEPT !.pc = "createInvoice",
              !.settled = TRUE,
              !.nCreateInvoice = @ + 1,
              !.invoiceData =
                 Some(InvoiceData(Val(req.customer), Val(req.body),
                                  PromiseAllValues(req.items, req.doneOrder)))]

\* the route after `await findOrCreateCustomer`: one findItems query per
\* line item, all sent before any is answered
ResolveLineItems(req) ==
  LET lineItems == Val(req.body).lineItems
  IN IF ~IsSome(lineItems)
     THEN Send(req, CreateCatch("Cannot read properties of undefined (reading 'map')"))
     ELSE LET started ==
                [req EXCEPT !.pc = "findItems",
                            !.nFindItems = Len(Val(lineItems)),
                            !.items = [i \in DOMAIN Val(lineItems) |-> InFlight]]
          IN IF Val(lineItems) = <<>> THEN IssueInvoice(started) ELSE started

CreateStart ==
  /\ CanArrive
  /\ variant = "index"
  /\ LET body == order
         req == [Idle EXCEPT !.kind = "create", !.body = Some(body),
                               !.isTokenValid = isAccessTokenValid]
     IN Arrive(IF RejectsUnauthenticated(req.isTokenValid)
               THEN Send(req, Unauthenticated)
               ELSE [req EXCEPT !.pc = "findCustomers", !.qboToken = token,
                                !.nFindCustomers = 1,
                                !.searchKey = Some(body.company)])
  /\ UNCHANGED <<variant, order, token, expired, customers, invoices>>

\* findOrCreateCustomer, no customer found: send the createCustomer call
CreateCustomerCall_unlessBusy(req) ==
  IF \E other \in Requests :
       other.pc = "createCustomer" /\ other.searchKey = req.searchKey
  THEN Send(req, CreateCatch("Customer is being created"))
  ELSE [req EXCEPT !.pc = "createCustomer",
                   !.nCreateCustomer = @ + 1,
                   !.newCustomer = Some(NewCustomer(Val(req.body)))]

CreateCustomerCall(req) ==
  [req EXCEPT !.pc = "createCustomer",
              !.nCreateCustomer = @ + 1,
              !.newCustomer = Some(NewCustomer(Val(req.body)))]

CustomersAnswered(req) ==
  /\ req.kind = "create" /\ req.pc = "findCustomers"
  /\ \E err \in {None, Some(E400)} :
       LET found == QueryCustomers(customers, Val(req.searchKey))
           got == [req EXCEPT !.found = found, !.searched = TRUE]
       IN Step(req,
               IF IsSome(err)
               THEN Send([req EXCEPT !.upstreamErr = err], CreateCatch(Val(err).message))
               ELSE IF HasCustomer(found)
               THEN ResolveLineItems([got EXCEPT !.customer = Some(Val(found)[1])])
               ELSE CreateCustomerCall(got))
  /\ UNCHANGED <<variant, order, token, expired, customers, invoices>>

\* the platform stores the new customer under a fresh Id
Stored(newCustomer, id) ==
  [Id |-> id,
   CompanyName |-> newCustomer.CompanyName,
   DisplayName |-> newCustomer.DisplayName,
   PrimaryEmailAddr |-> newCustomer.PrimaryEmailAddr,
   BillAddr |-> newCustomer.BillAddr,
   ShipAddr |-> newCustomer.ShipAddr]

CustomerCreated(req) ==
  /\ req.kind = "create" /\ req.pc = "createCustomer"
  /\ \E err \in {None, Some(E400)} :
       LET customer == Stored(Val(req.newCustomer), Len(customers) + 1)
       IN IF IsSome(err)
          THEN /\ Step(req, Send([req EXCEPT !.upstreamErr = err],
                                 CreateCatch(Val(err).message)))
               /\ UNCHANGED customers
          ELSE /\ customers' = Append(customers, customer)
               /\ Step(req, ResolveLineItems([req EXCEPT !.customer = Some(customer)]))
  /\ UNCHANGED <<variant, order, token, expired, invoices>>

\* one findItems query is answered: the findItem promise settles, the
\* line-item callback runs, and Promise.all takes note
ItemAnswered(req, i) ==
  /\ req.kind = "create"
  /\ i \in DOMAIN req.items
  /\ req.items[i].state = "inflight"
  /\ \E err \in {None, Some(E400)} :
       LET item == Val(Val(req.body).lineItems)[i]
           qboItem == FindItemResult(QueryItems(item.sku))
           rejected == IsSome(err) \/ ItemMissing(qboItem)
           message == IF IsSome(err) THEN Val(err).message
                      ELSE "Item with SKU " \o item.sku \o " not found"
           outcome == IF rejected
                      THEN [state |-> "rejected", line |-> None,
                            qboItem |-> None, message |-> message]
                      ELSE [state |-> "resolved",
                            line |-> Some(LineEntry(item, Val(qboItem))),
                            qboItem |-> qboItem, message |-> ""]
           noted == [req EXCEPT !.items[i] = outcome, !.doneOrder = Append(@, i)]
           allResolved == \A j \in DOMAIN noted.items : noted.items[j].state = "resolved"
       IN Step(req,
               IF rejected
               THEN IF RejectionReachesHandler(req.settled)
                    THEN Send([noted EXCEPT !.settled = TRUE], CreateCatch(message))
                    ELSE noted
               ELSE IF allResolved THEN IssueInvoice(noted) ELSE noted)
  /\ UNCHANGED <<variant, order, token, expired, customers, invoices>>

\* the platform stores the invoice under a fresh Id
StoredInvoice(invoiceData, id) == [Id |-> id, SyncToken |-> "0", Invoice |-> invoiceData]

InvoiceAnswered(req) ==
  /\ req.kind = "create" /\ req.pc = "createInvoice"
  /\ \E err \in {None, Some(E400)} :
       LET invoice == Some(StoredInvoice(Val(req.invoiceData), invoices + 1))
       IN /\ Step(req,
                  Send([req EXCEPT !.upstreamErr = err,
                                   !.upstreamOk = IF IsSome(err) THEN None ELSE invoice],
                       InvoiceCallback(err, invoice)))
          /\ invoices' = IF IsSome(err) THEN invoices ELSE invoices + 1
  /\ UNCHANGED <<variant, order, token, expired, customers>>

Next ==
  \/ TokenExpires
  \/ Auth
  \/ CallbackStart
  \/ \E req \in Requests : CallbackExchanged(req)
  \/ ListStart
  \/ ListThrows
  \/ \E req \in Requests : ListAnswered(req)
  \/ CreateStart
  \/ \E req \in Requests : CustomersAnswered(req)
  \/ \E req \in Requests : CustomerCreated(req)
  \/ \E req \in Requests : \E i \in DOMAIN req.items : ItemAnswered(req, i)
  \/ \E req \in Requests : InvoiceAnswered(req)

Spec == Init /\ [][Next]_vars

(***************************************************************************)
(* Properties.                                                             *)
(***************************************************************************)
Creates == {req \in Requests : req.kind = "create"}

Lists == {req \in Requests : req.kind = "list"}

NoUpstreamCall(req) ==
  /\ req.nFindInvoices = 0 /\ req.nFindCustomers = 0 /\ req.nCreateCustomer = 0
  /\ req.nFindItems = 0 /\ req.nCreateInvoice = 0
  /\ req.items = <<>>

\* some upstream call of the request has not called back yet
Pending(req) ==
  \/ req.pc \in {"exchange", "findInvoices", "findCustomers", "createCustomer",
                 "createInvoice"}
  \/ \E i \in DOMAIN req.items : req.items[i].state = "inflight"

\* C1: POST /api/invoices/create with an invalid or absent token responds
\* 401 JSON, once, and issues no upstream call, whatever the body.
C1_UnauthenticatedCreate ==
  \A req \in Creates :
    ~req.isTokenValid =>
      /\ req.pc = "done"
      /\ Len(req.responses) = 1
      /\ req.responses[1].status = 401
      /\ req.responses[1].type = "json"
      /\ NoUpstreamCall(req)

C1_Witness ==
  /\ IsSome(token) /\ expired
  /\ \E req \in Creates :
       /\ ~req.isTokenValid
       /\ Len(req.responses) = 1 /\ req.responses[1].status = 401
       /\ IsSome(Val(req.body).lineItems) /\ Len(Val(Val(req.body).lineItems)) = 2

\* C2: with a valid token, a body one of whose SKUs has no catalog match
\* never leads to an invoice-create call and is answered 500, whichever
\* line item is the missing one and in whatever order the item lookups
\* complete; a customer the request created stays on the platform.
HasMissingSku(body) ==
  /\ IsSome(body.lineItems)
  /\ \E i \in DOMAIN Val(body.lineItems) :
       \A k \in DOMAIN CatalogItems : CatalogItems[k].Sku # Val(body.lineItems)[i].sku

C2_MissingSkuFails ==
  \A req \in Creates :
    (req.isTokenValid /\ HasMissingSku(Val(req.body))) =>
      /\ req.nCreateInvoice = 0
      /\ req.invoiceData = None
      /\ \A k \in DOMAIN req.responses : req.responses[k].status = 500
      /\ (~Pending(req) => Len(req.responses) = 1)
      /\ (req.nCreateCustomer = 1 /\ IsSome(req.customer)) =>
           \E c \in DOMAIN customers : customers[c] = Val(req.customer)

C2_Witness ==
  \E req \in Creates :
    /\ req.isTokenValid /\ HasMissingSku(Val(req.body))
    /\ req.nCreateCustomer = 1 /\ IsSome(req.customer)
    /\ req.doneOrder = <<2, 1>>
    /\ req.items[1].state = "rejected" /\ req.items[2].state = "resolved"
    /\ Len(req.responses) = 1 /\ req.responses[1].status = 500
    /\ \E c \in DOMAIN customers : customers[c] = Val(req.customer)

\* C3: with a valid token a request issues exactly one customer search, by
\* company name; it issues no customer-create call when the search returned
\* a match, whose first customer it reuses as it is, and exactly one when
\* the search returned no match, carrying the submitted company, email,
\* billing and shipping fields.
SubmittedCustomer(body) ==
  [CompanyName |-> body.company,
   DisplayName |-> body.company,
   PrimaryEmailAddr |-> [Address |-> body.email],
   BillAddr |-> [Line1 |-> body.billingAddress, City |-> body.billingTown,
                 CountrySubDivisionCode |-> body.billingState,
                 PostalCode |-> body.billingZipCode],
   ShipAddr |-> [Line1 |-> body.shippingAddress, City |-> body.shippingTown,
                 CountrySubDivisionCode |-> body.shippingState,
                 PostalCode |-> body.shippingZipCode]]

C3_FindOrCreateCustomer ==
  \A req \in Creates :
    req.isTokenValid =>
      /\ req.nFindCustomers = 1
      /\ req.searchKey = <<Val(req.body).company>>
      /\ ~req.searched => (req.nCreateCustomer = 0 /\ req.customer = None)
      /\ (req.searched /\ req.found # None) =>
           /\ req.nCreateCustomer = 0
           /\ req.newCustomer = None
           /\ req.customer = <<Val(req.found)[1]>>
           /\ \E c \in DOMAIN customers : customers[c] = Val(req.found)[1]
      /\ (req.searched /\ req.found = None) =>
           /\ req.nCreateCustomer = 1
           /\ req.newCustomer = <<SubmittedCustomer(Val(req.body))>>

C3_Witness ==
  \E r1 \in Creates, r2 \in Creates :
    /\ r1.searched /\ r1.found = None /\ r1.nCreateCustomer = 1 /\ IsSome(r1.customer)
    /\ r2.searched /\ r2.found # None /\ r2.nCreateCustomer = 0
    /\ r2.customer = r1.customer
    /\ r2.pc = "done" /\ r2.responses[1].status = 201

\* C4: GET /api/invoices with a valid token: a find-invoices call that
\* fails with a 401 is answered by a redirect to /auth, one that fails with
\* any other error by a 500 with the generic message.
C4_Upstream401Redirects ==
  \A req \in Lists :
    (req.isTokenValid /\ req.nFindInvoices = 1 /\ IsSome(req.upstreamErr)) =>
      /\ Len(req.responses) = 1
      /\ IF Val(req.upstreamErr).authResponse.status = 401
         THEN req.responses[1] = Redirect("/auth")
         ELSE req.responses[1] = Json(500, [error |-> "Failed to fetch invoices"])

\* C5: GET /api/invoices with an invalid or absent token is answered by a
\* redirect to /auth and issues no upstream call, in both entry points.
C5_UnauthenticatedList ==
  \A req \in Lists :
    ~req.isTokenValid =>
      /\ req.pc = "done"
      /\ Len(req.responses) = 1
      /\ req.responses[1].status = 302
      /\ req.responses[1].type = "redirect"
      /\ req.responses[1].location = "/auth"
      /\ NoUpstreamCall(req)

C5_Witness ==
  /\ variant = "part_000"
  /\ IsSome(token) /\ expired
  /\ \E req \in Lists :
       /\ ~req.isTokenValid
       /\ Len(req.responses) = 1 /\ req.responses[1].location = "/auth"

\* C6: once the invoice-create call is issued, its success is answered by a
\* 201 whose body carries the upstream invoice object as it is under the
\* success/invoice envelope, its failure by a 500 with the failure detail;
\* no 201 is sent unless the invoice-create call succeeded.
C6_InvoiceEnvelope ==
  \A req \in Creates :
    /\ (req.nCreateInvoice = 1 /\ req.pc = "done") =>
         /\ Len(req.responses) = 1
         /\ IsSome(req.upstreamOk) =>
              /\ req.responses[1].status = 201
              /\ req.responses[1].body.success = TRUE
              /\ req.responses[1].body.invoice = Val(req.upstreamOk)
              /\ req.responses[1].body.invoice.Invoice = Val(req.invoiceData)
         /\ ~IsSome(req.upstreamOk) =>
              /\ IsSome(req.upstreamErr)
              /\ req.responses[1].status = 500
              /\ req.responses[1].body.details = Val(req.upstreamErr).message
    /\ \A k \in DOMAIN req.responses :
         req.responses[k].status = 201 =>
           (req.nCreateInvoice = 1 /\ IsSome(req.upstreamOk))

C6_Witness ==
  \E r1 \in Creates, r2 \in Creates :
    /\ r1.nCreateInvoice = 1 /\ r1.pc = "done" /\ r1.responses[1].status = 201
    /\ r2.nCreateInvoice = 1 /\ r2.pc = "done" /\ r2.responses[1].status = 500

\* C7: the invoice payload has one Line entry per submitted line item, in
\* the submitted order whatever the order in which the lookups completed;
\* entry i carries the Id of the catalog item resolved for the i-th SKU,
\* the integer value of the i-th quantity and the numeric value of the
\* i-th unitPrice (sku A1, quantity "2", unitPrice "10.00": ItemRef.value
\* "99", Qty 2, UnitPrice 10).
ExpectedLine(item) ==
  CASE item = LineA1 -> [id |-> "99", qty |-> 2, priceNum |-> 10, priceDen |-> 1]
    [] item = LineB2 -> [id |-> "7", qty |-> 12, priceNum |-> -1, priceDen |-> 2]

C7_LinesInSubmittedOrder ==
  \A req \in Creates :
    IsSome(req.invoiceData) =>
      LET lines == Val(req.invoiceData).Line
          submitted == Val(Val(req.body).lineItems)
      IN /\ Len(lines) = Len(submitted)
         /\ \A i \in DOMAIN submitted :
              LET detail == lines[i].SalesItemLineDetail
                  expected == ExpectedLine(submitted[i])
              IN /\ lines[i].Description = submitted[i].description
                 /\ detail.ItemRef.value = Val(req.items[i].qboItem).Id
                 /\ Val(req.items[i].qboItem).Sku = submitted[i].sku
                 /\ detail.ItemRef.value = expected.id
                 /\ detail.Qty = [nan |-> FALSE, num |-> expected.qty, den |-> 1]
                 /\ detail.UnitPrice =
                      [nan |-> FALSE, num |-> expected.priceNum, den |-> expected.priceDen]

C7_Witness ==
  \E req \in Creates :
    /\ IsSome(req.invoiceData)
    /\ req.doneOrder = <<2, 1>>
    /\ Val(Val(req.body).lineItems)[2] = LineA1
    /\ Val(req.invoiceData).Line[2].SalesItemLineDetail.ItemRef.value = "99"
    /\ Val(req.invoiceData).Line[2].SalesItemLineDetail.Qty.num = 2
    /\ Val(req.invoiceData).Line[2].SalesItemLineDetail.UnitPrice.num = 10
    /\ Val(req.invoiceData).Line[1].SalesItemLineDetail.ItemRef.value = "7"

\* C8: the token record changes only in a GET /callback whose exchange
\* succeeded; a failed exchange is answered 500; and as long as no exchange
\* has succeeded the record is absent and every POST /api/invoices/create
\* is answered 401.
ExchangeSucceeded(req) ==
  req.kind = "callback" /\ req.pc = "done" /\ IsSome(req.upstreamOk)

C8_TokenStep ==
  token' # token =>
    \E old \in Requests :
      /\ old.kind = "callback" /\ old.pc = "exchange"
      /\ \E new \in BagToSet(reqs') :
           /\ ExchangeSucceeded(new)
           /\ token' = new.upstreamOk
           /\ CopiesIn(new, reqs') = CopiesIn(new, reqs) + 1
           /\ CopiesIn(old, reqs') = CopiesIn(old, reqs) - 1

C8_NoTokenYet ==
  /\ \A req \in Requests :
       (req.kind = "callback" /\ req.pc = "done" /\ ~IsSome(req.upstreamOk)) =>
         (Len(req.responses) = 1 /\ req.responses[1].status = 500)
  /\ (\A req \in Requests : ~ExchangeSucceeded(req)) =>
       /\ token = None
       /\ \A req \in Creates :
            Len(req.responses) = 1 /\ req.responses[1].status = 401

C8_TokenWrittenOnlyByCallback == [][C8_TokenStep]_vars /\ []C8_NoTokenYet

C8_Witness ==
  /\ token = None
  /\ \E req \in Requests :
       req.kind = "callback" /\ req.pc = "done" /\ req.responses[1].status = 500
  /\ \E req \in Lists : req.pc = "done"
  /\ \E req \in Creates : req.responses[1].status = 401

\* C9: find-or-create is not atomic across requests: a request whose search
\* returned no match issues its own customer-create call whatever the other
\* requests in flight are doing, so two requests for one company whose
\* searches both returned no match and whose creates both succeeded leave
\* two customers with that company name on the platform.
NoMatch(req) == req.kind = "create" /\ req.searched /\ req.found = None

NamedLike(company) == {c \in DOMAIN customers : customers[c].CompanyName = company}

C9_CreateNotAtomic ==
  /\ \A req \in Creates :
       NoMatch(req) =>
         /\ req.nCreateCustomer = 1
         /\ req.pc = "createCustomer" \/ IsSome(req.customer) \/ IsSome(req.upstreamErr)
  /\ \A r1 \in Creates, r2 \in Creates :
       ( /\ r1 # r2
         /\ NoMatch(r1) /\ NoMatch(r2)
         /\ r1.searchKey = r2.searchKey
         /\ IsSome(r1.customer) /\ IsSome(r2.customer) ) =>
           /\ Val(r1.customer).Id # Val(r2.customer).Id
           /\ Cardinality(NamedLike(Val(r1.searchKey))) >= 2

C9_Witness ==
  \E r1 \in Creates, r2 \in Creates :
    /\ r1 # r2
    /\ NoMatch(r1) /\ NoMatch(r2)
    /\ r1.searchKey = r2.searchKey
    /\ IsSome(r1.customer) /\ IsSome(r2.customer)
    /\ Val(r1.customer).Id # Val(r2.customer).Id
    /\ Val(r1.customer).CompanyName = Val(r2.customer).CompanyName
    /\ Cardinality(NamedLike(Val(r1.searchKey))) = 2

\* C10: a POST /api/invoices/create never sends two responses, and once
\* all its upstream calls have called back it has sent exactly one.
C10_ExactlyOneResponse ==
  \A req \in Creates :
    /\ Len(req.responses) <= 1
    /\ ~Pending(req) => Len(req.responses) = 1

C10_Witness ==
  \E req \in Creates :
    /\ ~Pending(req)
    /\ Len(req.items) = 2
    /\ req.items[1].state = "rejected" /\ req.items[2].state = "rejected"
    /\ Len(req.responses) = 1 /\ req.responses[1].status = 500

====
